---- MODULE Spec2Model ----
(***************************************************************************)
(* Device state reconciliation: the PATCH /device/v3/state handler         *)
(* (statePatchV3) of open-balena-api, modelled as a state machine over a   *)
(* relational store.                                                       *)
(*                                                                         *)
(* JavaScript objects are functions with string domains: an absent key is  *)
(* a key outside the DOMAIN.  A nullable column holds a set with at most   *)
(* one element ({} is NULL).                                               *)
(***************************************************************************)
EXTENDS Integers, Sequences, FiniteSets, TLC

\* ------------------------------------------------------------------------
\* Small helpers
\* ------------------------------------------------------------------------

\* The object without keys, {}.
EmptyObj == [k \in {} |-> k]

\* The keys of obj in the order of an enumeration (Object.keys / Object.entries).
KeysIn(order, obj) == SelectSeq(order, LAMBDA k : k \in DOMAIN obj)

RECURSIVE Flatten(_)
Flatten(ss) == IF ss = <<>> THEN <<>> ELSE Head(ss) \o Flatten(Tail(ss))

Range(s) == {s[i] : i \in DOMAIN s}

\* ------------------------------------------------------------------------
\* The tables statePatchV3 only reads: application, release, image, and the
\* identity columns of device.
\* ------------------------------------------------------------------------

AppOrder == <<"a1", "a2">>
CommitOrder == <<"r1", "r2">>
ServiceOrder == <<"main", "aux">>
UuidOrder == <<"d1", "d2", "dx">>

\* release: commit r1 exists under both applications, commit r2 only under a2.
ReleaseTable ==
    { [id |-> 5, commit |-> "r1", belongs_to__application |-> "a1"],
      [id |-> 6, commit |-> "r2", belongs_to__application |-> "a2"],
      [id |-> 7, commit |-> "r1", belongs_to__application |-> "a2"] }

\* image: location img-loc-x names no image, and no report names img-loc-3.
ImageTable ==
    { [id |-> 9,  is_stored_at__image_location |-> "img-loc-1"],
      [id |-> 10, is_stored_at__image_location |-> "img-loc-2"],
      [id |-> 11, is_stored_at__image_location |-> "img-loc-3"] }

\* device identities: uuid dx names no device, and no report names d3.
DeviceTable ==
    { [id |-> 1, uuid |-> "d1", belongs_to__application |-> <<[uuid |-> "a1"]>>],
      [id |-> 2, uuid |-> "d2", belongs_to__application |-> <<[uuid |-> "a2"]>>],
      [id |-> 3, uuid |-> "d3", belongs_to__application |-> <<[uuid |-> "a1"]>>] }

DeviceIds == {d.id : d \in DeviceTable}

\* ------------------------------------------------------------------------
\* Request bodies (StatePatchV3Body)
\* ------------------------------------------------------------------------

validPatchFields ==
    { "status", "os_version", "os_variant", "supervisor_version",
      "provisioning_progress", "provisioning_state", "ip_address",
      "mac_address", "api_port", "api_secret", "logs_channel",
      "memory_usage", "memory_total", "storage_block_device",
      "storage_usage", "storage_total", "cpu_temp", "cpu_usage", "cpu_id",
      "is_undervolted", "is_online" }

\* One service entry { image, status, download_progress? }.
ServiceChoices ==
    { [image |-> "img-loc-1", status |-> "Running"],
      [image |-> "img-loc-2", status |-> "Downloading", download_progress |-> 50],
      [image |-> "img-loc-x", status |-> "Running"] }

\* services: { [name]: service }
ServicesChoices ==
    {EmptyObj}
    \cup { "main" :> s : s \in ServiceChoices }
    \cup { ("main" :> [image |-> "img-loc-1", status |-> "Running"]) @@ ("aux" :> s) :
             s \in ServiceChoices }

\* One release entry { services? }.
ReleaseEntryChoices == {EmptyObj} \cup { "services" :> s : s \in ServicesChoices }

\* releases: { [releaseUUID]: { services? } }
ReleasesChoices ==
    {EmptyObj}
    \cup { "r1" :> e : e \in ReleaseEntryChoices }
    \cup { "r2" :> EmptyObj }
    \cup { ("r1" :> EmptyObj) @@ ("r2" :> ("services" :> ("main" :> s))) :
             s \in ServiceChoices }

\* One application entry { release_uuid?, releases? }.
AppEntryChoices ==
    { ru @@ rl :
        ru \in {EmptyObj, [release_uuid |-> "r1"]},
        rl \in {EmptyObj} \cup { "releases" :> r : r \in ReleasesChoices } }
    \cup { [release_uuid |-> "r2"],
           [release_uuid |-> "r2", releases |-> ("r2" :> EmptyObj)] }

SmallAppEntryChoices ==
    { EmptyObj,
      [release_uuid |-> "r1"],
      [releases |-> ("r1" :> [services |-> ("main" :> [image |-> "img-loc-2",
                              status |-> "Downloading", download_progress |-> 50])])] }

\* apps: { [appUuid]: { release_uuid?, releases? } }
AppsChoices ==
    {EmptyObj}
    \cup { a :> e : a \in Range(AppOrder), e \in AppEntryChoices }
    \cup { ("a1" :> e1) @@ ("a2" :> e2) :
             e1 \in SmallAppEntryChoices, e2 \in SmallAppEntryChoices }

\* The scalar part of a per-device object; parent_device is not allow-listed.
ScalarChoices ==
    { EmptyObj,
      [status |-> "Idle", name |-> "n1", parent_device |-> 2] }

\* Per-device objects of the first device: every shape above.
StateChoices ==
    { [status |-> "Idle"] }
    \cup { sc @@ ap : sc \in ScalarChoices,
                      ap \in {EmptyObj} \cup { "apps" :> a : a \in AppsChoices } }

\* Per-device objects of the other devices of a batch.
OtherStateChoices ==
    { EmptyObj,
      [status |-> "Idle"],
      [apps |-> EmptyObj],
      [apps |-> ("a1" :> EmptyObj)],
      [apps |-> ("a2" :> [release_uuid |-> "r2",
                 releases |-> ("r2" :> [services |->
                     ("main" :> [image |-> "img-loc-2", status |-> "Running"])])])],
      [status |-> "Idle",
       apps |-> ("a2" :> [releases |-> ("r1" :> [services |->
                     ("main" :> [image |-> "img-loc-1", status |-> "Running"])])])] }

\* What a body holds for one uuid: no key, a null value, or an object.
Absent == [kind |-> "absent"]
Null == [kind |-> "null"]
Obj(o) == [kind |-> "obj", obj |-> o]

EntryChoices(uuid) ==
    CASE uuid = "d1" -> {Absent, Null} \cup {Obj(o) : o \in StateChoices}
      [] uuid = "d2" -> {Absent} \cup {Obj(o) : o \in OtherStateChoices}
      [] OTHER -> {Absent, Null, Obj([status |-> "Idle"])}

\* A body: keys is Object.keys(body), val maps the keys whose value is not
\* null to their per-device object (the others are null or undefined).
MkBody(e) ==
    [ keys |-> {u \in DOMAIN e : e[u].kind # "absent"},
      val |-> [u \in {v \in DOMAIN e : e[v].kind = "obj"} |-> e[u].obj] ]

Bodies ==
    { MkBody([u \in Range(UuidOrder) |->
                 CASE u = "d1" -> e1 [] u = "d2" -> e2 [] OTHER -> ex]) :
        e1 \in EntryChoices("d1"), e2 \in EntryChoices("d2"), ex \in EntryChoices("dx") }

\* ------------------------------------------------------------------------
\* Lines 113-147: the device entries, and the release commits and image
\* locations the batch references
\* ------------------------------------------------------------------------

\* Object.keys(body), null entries included.
uuidsWithNull(b) == SelectSeq(UuidOrder, LAMBDA u : u \in b.keys)

\* const uuids = Object.keys(body).filter((uuid) => body[uuid] != null)
uuids(b) == KeysIn(UuidOrder, b.val)

HasApps(state) == "apps" \in DOMAIN state

\* The commits one application entry references: release_uuid when truthy,
\* and every key of releases.
EntryCommits(entry) ==
    (IF "release_uuid" \in DOMAIN entry THEN {entry.release_uuid} ELSE {})
    \cup (IF "releases" \in DOMAIN entry THEN DOMAIN entry.releases ELSE {})

\* appReleaseUuids: { [appUuid]: Set<commit> }, a key for every application
\* that any device of the batch names.
appReleaseUuids(b) ==
    LET named == UNION { DOMAIN b.val[u].apps : u \in {v \in DOMAIN b.val : HasApps(b.val[v])} }
    IN  [ a \in named |->
            UNION { EntryCommits(b.val[u].apps[a]) :
                      u \in {v \in DOMAIN b.val : HasApps(b.val[v]) /\ a \in DOMAIN b.val[v].apps} } ]

\* The image of every service of a release entry, in order.
ServiceImages(relEntry) ==
    IF "services" \in DOMAIN relEntry
    THEN LET names == KeysIn(ServiceOrder, relEntry.services)
         IN  [i \in DOMAIN names |-> relEntry.services[names[i]].image]
    ELSE <<>>

EntryImages(entry) ==
    IF "releases" \in DOMAIN entry
    THEN LET cs == KeysIn(CommitOrder, entry.releases)
         IN  Flatten([i \in DOMAIN cs |-> ServiceImages(entry.releases[cs[i]])])
    ELSE <<>>

AppsImages(apps) ==
    LET as == KeysIn(AppOrder, apps)
    IN  Flatten([i \in DOMAIN as |-> EntryImages(apps[as[i]])])

\* imageLocations: string[], one element pushed per service of the batch.
imageLocations(b) ==
    LET us == uuids(b)
    IN  Flatten([i \in DOMAIN us |->
                   IF HasApps(b.val[us[i]]) THEN AppsImages(b.val[us[i]].apps) ELSE <<>>])

\* ------------------------------------------------------------------------
\* Lines 162-216: the three queries of the read transaction
\* ------------------------------------------------------------------------

\* device rows with uuid $in uuids, $select id, uuid, belongs_to__application
GetDevices(us) == {d \in DeviceTable : d.uuid \in Range(us)}

\* image rows with is_stored_at__image_location $in imageLocations
GetImages(locs) == {i \in ImageTable : i.is_stored_at__image_location \in Range(locs)}

\* release rows with commit $in releaseUuids that belong to appUuid,
\* $select id, commit
GetReleasesAll(appUuid, commits) ==
    { [id |-> r.id, commit |-> r.commit] : r \in {q \in ReleaseTable : q.commit \in commits} }

GetReleases(appUuid, commits) ==
    { [id |-> r.id, commit |-> r.commit] :
        r \in {q \in ReleaseTable : q.commit \in commits /\ q.belongs_to__application = appUuid} }

\* ------------------------------------------------------------------------
\* Lines 230-353: the loop of the write transaction.  The loop is
\* synchronous: it issues operations (waitPromises) and may throw.
\* ------------------------------------------------------------------------

\* The per-device object taken whole, without the allow-list.
deviceBodyUnpicked(state) ==
    LET rest == [k \in DOMAIN state \ {"apps", "name"} |-> state[k]]
    IN  IF "name" \in DOMAIN state
        THEN rest @@ ("device_name" :> state.name)
        ELSE rest

\* const deviceBody = _.pick(state, validPatchFields), plus device_name
deviceBody(state) ==
    LET picked == [k \in DOMAIN state \cap validPatchFields |-> state[k]]
    IN  IF "name" \in DOMAIN state
        THEN picked @@ ("device_name" :> state.name)
        ELSE picked

\* Lines 246-248: appReleases[userAppUuid].find((r) => r.commit ===
\* apps[userAppUuid].release_uuid).  Reading a property of undefined throws a
\* TypeError: appReleases[userAppUuid] when no device of the batch names the
\* application, apps[userAppUuid] when the callback runs on a non-empty list.
RunningReleaseOfFirstApp(appReleases, userAppUuid, apps) ==
    LET named == KeysIn(AppOrder, apps)
    IN  IF named = <<>>
        THEN [thrown |-> FALSE, release |-> {}]
        ELSE LET entry == apps[named[1]]
                 found == IF "release_uuid" \in DOMAIN entry
                          THEN {q \in appReleases[named[1]] : q.commit = entry.release_uuid}
                          ELSE {}
             IN  [ thrown |-> FALSE,
                   release |-> IF found = {} THEN {} ELSE {CHOOSE q \in found : TRUE} ]

RunningRelease(appReleases, userAppUuid, apps) ==
    IF userAppUuid \notin DOMAIN appReleases
    THEN [thrown |-> TRUE, release |-> {}]
    ELSE IF appReleases[userAppUuid] = {}
    THEN [thrown |-> FALSE, release |-> {}]
    ELSE IF userAppUuid \notin DOMAIN apps
    THEN [thrown |-> TRUE, release |-> {}]
    ELSE LET entry == apps[userAppUuid]
             found == IF "release_uuid" \in DOMAIN entry
                      THEN {q \in appReleases[userAppUuid] : q.commit = entry.release_uuid}
                      ELSE {}
         IN  [ thrown |-> FALSE,
               release |-> IF found = {} THEN {} ELSE {CHOOSE q \in found : TRUE} ]

\* Lines 297-310: one imgInstalls element per service of a release entry;
\* missing is TRUE when images.find returns undefined.
ServiceInstalls(images, releaseId, relEntry) ==
    IF "services" \in DOMAIN relEntry
    THEN LET names == KeysIn(ServiceOrder, relEntry.services)
         IN  [ i \in DOMAIN names |->
                 LET service == relEntry.services[names[i]]
                     image == {q \in images : q.is_stored_at__image_location = service.image}
                 IN  IF image = {}
                     THEN [missing |-> TRUE]
                     ELSE [ missing |-> FALSE,
                            imageId |-> (CHOOSE q \in image : TRUE).id,
                            releaseId |-> releaseId,
                            status |-> service.status,
                            downloadProgress |->
                                IF "download_progress" \in DOMAIN service
                                THEN {service.download_progress} ELSE {} ] ]
    ELSE <<>>

\* Lines 288-311 for one application entry: appReleases[appUuid].find by
\* commit, then the services of each release.
EntryInstallsAnyRelease(x, appUuid, entry) ==
    IF "releases" \in DOMAIN entry
    THEN LET cs == KeysIn(CommitOrder, entry.releases)
         IN  Flatten([ i \in DOMAIN cs |->
                 LET release == {q \in ReleaseTable : q.commit = cs[i]}
                 IN  IF release = {}
                     THEN << [missing |-> TRUE] >>
                     ELSE ServiceInstalls(x.images,
                              (CHOOSE q \in release : \A o \in release : q.id >= o.id).id,
                              entry.releases[cs[i]]) ])
    ELSE <<>>

EntryInstalls(x, appUuid, entry) ==
    IF "releases" \in DOMAIN entry
    THEN LET cs == KeysIn(CommitOrder, entry.releases)
         IN  Flatten([ i \in DOMAIN cs |->
                 LET release == {q \in x.appReleases[appUuid] : q.commit = cs[i]}
                 IN  IF release = {}
                     THEN << [missing |-> TRUE] >>
                     ELSE ServiceInstalls(x.images, (CHOOSE q \in release : TRUE).id,
                                          entry.releases[cs[i]]) ])
    ELSE <<>>

\* Lines 268-312: imgInstalls of one device; thrown when a find came back
\* undefined (InternalRequestError).
imgInstalls(x, apps) ==
    LET as == KeysIn(AppOrder, apps)
        all == Flatten([i \in DOMAIN as |-> EntryInstalls(x, as[i], apps[as[i]])])
    IN  [ thrown |-> \E i \in DOMAIN all : all[i].missing,
          list |-> SelectSeq(all, LAMBDA e : ~e.missing) ]

\* const imageIds = imgInstalls.map(({ imageId }) => imageId)
imageIds(list) == {list[i].imageId : i \in DOMAIN list}

\* Lines 231-353: one iteration of the loop: the operations it pushes to
\* waitPromises and the error it throws, if any.
DeviceIteration(b, x, uuid) ==
    LET state == b.val[uuid]
        found == {d \in x.devices : d.uuid = uuid}
    IN  IF found = {}
        THEN [ops |-> <<>>, thrown |-> "UnauthorizedError"]
        ELSE
        LET dev == CHOOSE d \in found : TRUE
            userAppUuid == dev.belongs_to__application[1].uuid
            rr == IF HasApps(state)
                  THEN RunningRelease(x.appReleases, userAppUuid, state.apps)
                  ELSE [thrown |-> FALSE, release |-> {}]
            patchBody == IF rr.release # {}
                         THEN deviceBody(state) @@
                              ("is_running__release" :> {(CHOOSE q \in rr.release : TRUE).id})
                         ELSE deviceBody(state)
            patchOps == IF patchBody # EmptyObj
                        THEN << [op |-> "patch", device |-> dev.id, body |-> patchBody] >>
                        ELSE <<>>
        IN  IF rr.thrown
            THEN [ops |-> <<>>, thrown |-> "TypeError"]
            ELSE IF ~HasApps(state)
            THEN [ops |-> patchOps, thrown |-> ""]
            ELSE
            LET ii == imgInstalls(x, state.apps)
                upsertOps == IF imageIds(ii.list) # {}
                             THEN << [op |-> "get", device |-> dev.id, list |-> ii.list] >>
                             ELSE <<>>
                deleteOps == << [op |-> "delete", device |-> dev.id,
                                 imageIds |-> imageIds(ii.list)] >>
            IN  IF ii.thrown
                THEN [ops |-> patchOps, thrown |-> "InternalRequestError"]
                ELSE [ops |-> patchOps \o upsertOps \o deleteOps, thrown |-> ""]

\* for (const uuid of uuids) { ... }: stops at the first iteration that throws.
RECURSIVE WriteLoop(_, _, _)
WriteLoop(b, x, us) ==
    IF us = <<>>
    THEN [ops |-> <<>>, thrown |-> ""]
    ELSE LET first == DeviceIteration(b, x, Head(us))
         IN  IF first.thrown # ""
             THEN first
             ELSE LET rest == WriteLoop(b, x, Tail(us))
                  IN  [ops |-> first.ops \o rest.ops, thrown |-> rest.thrown]

\* ------------------------------------------------------------------------
\* The store operations of the write transaction
\* ------------------------------------------------------------------------

\* $filter: { $not: deviceBody }: the row differs from the body in some field.
DiffersFrom(row, patch) ==
    \E k \in DOMAIN patch : k \notin DOMAIN row \/ row[k] # patch[k]

\* Lines 256-263: resinApiTx.patch of one device row by id, filtered by
\* $not: deviceBody; the row after the patch.
PatchDeviceUnfiltered(row, patch) == [changed |-> TRUE, row |-> patch @@ row]

PatchDevice(row, patch) ==
    IF DiffersFrom(row, patch)
    THEN [changed |-> TRUE, row |-> patch @@ row]
    ELSE [changed |-> FALSE, row |-> row]

\* Lines 319-327: the image_install rows of the device for the claimed images.
existingImgInstallsNone(installs, deviceId, ids) == {}

existingImgInstalls(installs, deviceId, ids) ==
    {i \in installs : i.device = deviceId /\ i.installs__image \in ids}

\* Lines 331-334: _.keyBy(existingImgInstalls, installs__image.__id): every way
\* to keep one row per image (the rows come back in no stated order).
existingImgInstallsByImage(existing) ==
    LET imgs == {i.installs__image : i \in existing}
    IN  { f \in [imgs -> existing] : \A m \in imgs : f[m].installs__image = m }

\* upsertImageInstall (state-patch-v2): without an existing row a new row is
\* inserted; an existing row is updated in place, and only if its status,
\* progress or release differ.
upsertImageInstall(installs, newId, existing, imgInstall, deviceId) ==
    LET target == [ is_provided_by__release |-> imgInstall.releaseId,
                    status |-> imgInstall.status,
                    download_progress |-> imgInstall.downloadProgress ]
    IN  IF existing = {}
        THEN [ op |-> "insert", changed |-> TRUE,
               installs |-> installs \cup
                   { [id |-> newId, device |-> deviceId,
                      installs__image |-> imgInstall.imageId] @@ target } ]
        ELSE [ op |-> "update",
               changed |-> \E i \in installs : i.id \in existing /\ DiffersFrom(i, target),
               installs |-> { IF i.id \in existing THEN target @@ i ELSE i : i \in installs } ]

\* deleteOldImageInstalls (state-patch-v2): removes the rows of the device
\* whose image is not among the claimed imageIds, within the images the
\* batch looked up.
deleteOldImageInstallsOfDevice(installs, deviceId, ids, scope) ==
    LET old == {i \in installs : i.device = deviceId /\ i.installs__image \notin ids}
    IN  [changed |-> old # {}, installs |-> installs \ old]

deleteOldImageInstalls(installs, deviceId, ids, scope) ==
    LET old == {i \in installs : /\ i.device = deviceId
                                 /\ i.installs__image \notin ids
                                 /\ i.installs__image \in scope}
    IN  [changed |-> old # {}, installs |-> installs \ old]

\* ------------------------------------------------------------------------
\* State
\* ------------------------------------------------------------------------

Reqs == {1, 2}

\* How many times one report is submitted in a row.
MaxSubmissions == 2

VARIABLES
    device,        \* device table: id -> the columns statePatchV3 writes
    imageInstall,  \* image_install table: a set of rows
    idSeq,         \* the last id given to an image_install row
    pc,            \* per request: where the handler is
    body,          \* per request: req.body
    xref,          \* per request: devices, images, appReleases of the read phase
    tx,            \* per request: the read and the write transaction
    res,           \* per request: the response and the error that caused it
    hist,          \* per request: the store when the report was submitted
    http,          \* per request: its way through the middleware of its route
    version,       \* per instance: the deployment version of lib/config
    usedCacheKeys, \* per instance: the cache keys taken
    memo,          \* per instance: the memoized functions created, and keyPrefix
    opts,          \* the options the memoized function is created with
    caches,        \* the tiers: redis, and the memory cache of each instance
    wrap,          \* per instance: the cache.wrap under way for the key
    refresh,       \* per instance: the background refresh under way
    call,          \* per instance and caller: a call of the memoized function
    since          \* per instance: what happened since a call last completed

patchVars == <<device, imageInstall, idSeq, pc, body, xref, tx, res, hist>>
routeVars == <<http>>
cacheVars == <<version, usedCacheKeys, memo, opts, caches, wrap, refresh, call, since>>

vars == <<patchVars, routeVars, cacheVars>>

NoBody == [keys |-> {}, val |-> EmptyObj]
NoXref == [devices |-> {}, images |-> {}, appReleases |-> EmptyObj]
NoTx == [ read |-> "none", write |-> "none", device |-> EmptyObj, installs |-> {},
          base |-> [device |-> EmptyObj, installs |-> {}], pending |-> {}, log |-> {} ]
NoRes == [status |-> 0, error |-> "", at |-> ""]

\* The device rows a store can start with.
InitDevices ==
    { [ d \in DeviceIds |->
          IF d = 1 THEN row
          ELSE IF d = 2
          THEN [ status |-> "Idle", device_name |-> "n2",
                 is_running__release |-> {6}, is_managed_by__device |-> {} ]
          ELSE [ status |-> "Idle", device_name |-> "n3",
                 is_running__release |-> {}, is_managed_by__device |-> {1} ] ] :
        row \in { [ status |-> "Configuring", device_name |-> "n0",
                    is_running__release |-> {}, is_managed_by__device |-> {} ],
                  [ status |-> "Idle", device_name |-> "n1",
                    is_running__release |-> {5}, is_managed_by__device |-> {} ] } }

InstallRow(id, dev, img, rel, st, prog) ==
    [ id |-> id, device |-> dev, installs__image |-> img,
      is_provided_by__release |-> rel, status |-> st, download_progress |-> prog ]

\* The image_install tables a store can start with: at most one row per
\* (device, image).
InitInstalls ==
    { {},
      { InstallRow(100, 1, 9, 5, "Running", {}) },
      { InstallRow(100, 1, 9, 5, "Downloading", {50}),
        InstallRow(101, 1, 10, 5, "Running", {}) },
      { InstallRow(100, 1, 9, 5, "Running", {}),
        InstallRow(101, 1, 10, 7, "Running", {}),
        InstallRow(102, 2, 10, 6, "Running", {}),
        InstallRow(103, 1, 11, 5, "Running", {}),
        InstallRow(104, 3, 9, 5, "Running", {}) } }

InitPatch ==
    /\ device \in InitDevices
    /\ imageInstall \in InitInstalls
    /\ idSeq = 104
    /\ pc = [r \in Reqs |-> "idle"]
    /\ body = [r \in Reqs |-> NoBody]
    /\ xref = [r \in Reqs |-> NoXref]
    /\ tx = [r \in Reqs |-> NoTx]
    /\ res = [r \in Reqs |-> NoRes]
    /\ hist = [r \in Reqs |-> [before |-> [device |-> device, imageInstall |-> imageInstall],
                               round |-> 0]]

Store == [device |-> device, imageInstall |-> imageInstall]

\* The status handleHttpErrors / the catch block answers an error with.
StatusOf(error) ==
    CASE error = "BadRequestError" -> 400
      [] error = "UnauthorizedError" -> 401
      [] OTHER -> 500

\* An error thrown outside the write transaction: the response is sent.
Throw(r, error, at) ==
    /\ res' = [res EXCEPT ![r] = [status |-> StatusOf(error), error |-> error, at |-> at]]
    /\ pc' = [pc EXCEPT ![r] = "done"]

\* ------------------------------------------------------------------------
\* statePatchV3, lines 103-367
\* ------------------------------------------------------------------------

\* Lines 105-116: a request arrives with one of the bodies of pool; without
\* a non-null device entry it is answered BadRequestError, else the read
\* transaction is opened (line 158).
ReceiveFrom(r, pool) ==
    /\ pc[r] = "idle"
    /\ \E b \in pool :
        /\ body' = [body EXCEPT ![r] = b]
        /\ hist' = [hist EXCEPT ![r] = [before |-> Store, round |-> 1]]
        /\ IF uuids(b) = <<>>
           THEN /\ Throw(r, "BadRequestError", "body")
                /\ tx' = tx
           ELSE /\ pc' = [pc EXCEPT ![r] = "readDevices"]
                /\ tx' = [tx EXCEPT ![r].read = "open"]
                /\ res' = res
    /\ UNCHANGED <<device, imageInstall, idSeq, xref>>
    /\ UNCHANGED <<cacheVars, routeVars>>

Receive(r) == ReceiveFrom(r, Bodies)

\* Lines 162-182: the devices of the batch.
ReadDevices(r) ==
    /\ pc[r] = "readDevices"
    /\ LET devices == GetDevices(uuids(body[r]))
       IN  /\ xref' = [xref EXCEPT ![r].devices = devices]
           /\ IF Cardinality(devices) # Len(uuids(body[r]))
              THEN /\ Throw(r, "UnauthorizedError", "devices")
                   /\ tx' = [tx EXCEPT ![r].read = "closed"]
              ELSE /\ pc' = [pc EXCEPT ![r] = "readImages"]
                   /\ UNCHANGED <<tx, res>>
    /\ UNCHANGED <<device, imageInstall, idSeq, body, hist>>
    /\ UNCHANGED <<cacheVars, routeVars>>

\* The images of the batch read without comparing their number.
ReadImagesUnchecked(r) ==
    /\ pc[r] = "readImages"
    /\ LET locs == imageLocations(body[r])
           images == GetImages(locs)
       IN  IF Len(locs) > 0
           THEN /\ xref' = [xref EXCEPT ![r].images = images]
                /\ pc' = [pc EXCEPT ![r] = "readReleases"]
                /\ UNCHANGED <<tx, res>>
           ELSE /\ pc' = [pc EXCEPT ![r] = "readReleases"]
                /\ UNCHANGED <<xref, tx, res>>
    /\ UNCHANGED <<device, imageInstall, idSeq, body, hist>>
    /\ UNCHANGED <<cacheVars, routeVars>>

\* Lines 184-197: the images of the batch, when it references any.
ReadImages(r) ==
    /\ pc[r] = "readImages"
    /\ LET locs == imageLocations(body[r])
           images == GetImages(locs)
       IN  IF Len(locs) > 0
           THEN /\ xref' = [xref EXCEPT ![r].images = images]
                /\ IF Len(locs) # Cardinality(images)
                   THEN /\ Throw(r, "UnauthorizedError", "images")
                        /\ tx' = [tx EXCEPT ![r].read = "closed"]
                   ELSE /\ pc' = [pc EXCEPT ![r] = "readReleases"]
                        /\ UNCHANGED <<tx, res>>
           ELSE /\ pc' = [pc EXCEPT ![r] = "readReleases"]
                /\ UNCHANGED <<xref, tx, res>>
    /\ UNCHANGED <<device, imageInstall, idSeq, body, hist>>
    /\ UNCHANGED <<cacheVars, routeVars>>

\* The applications of appReleaseUuids the loop of line 199 has not reached.
AppsLeft(r) ==
    SelectSeq(KeysIn(AppOrder, appReleaseUuids(body[r])),
              LAMBDA a : a \notin DOMAIN xref[r].appReleases)

\* Lines 199-220: one iteration, the releases of one application.
ReadReleases(r) ==
    /\ pc[r] = "readReleases"
    /\ AppsLeft(r) # <<>>
    /\ LET appUuid == Head(AppsLeft(r))
           releaseUuids == appReleaseUuids(body[r])[appUuid]
           releases == GetReleases(appUuid, releaseUuids)
       IN  /\ xref' = [xref EXCEPT ![r].appReleases = (appUuid :> releases) @@ @]
           /\ IF Cardinality(releases) # Cardinality(releaseUuids)
              THEN /\ Throw(r, "UnauthorizedError", "releases")
                   /\ tx' = [tx EXCEPT ![r].read = "closed"]
              ELSE UNCHANGED <<pc, tx, res>>
    /\ UNCHANGED <<device, imageInstall, idSeq, body, hist>>
    /\ UNCHANGED <<cacheVars, routeVars>>

\* Line 221: the read transaction ends.
ReadEnd(r) ==
    /\ pc[r] = "readReleases"
    /\ AppsLeft(r) = <<>>
    /\ tx' = [tx EXCEPT ![r].read = "closed"]
    /\ pc' = [pc EXCEPT ![r] = "write"]
    /\ UNCHANGED <<device, imageInstall, idSeq, body, xref, res, hist>>
    /\ UNCHANGED <<cacheVars, routeVars>>

\* Lines 223-354: the write transaction is opened and the loop issues its
\* operations; an error thrown by the loop rejects the transaction, while
\* the operations issued before it are still in flight.
WriteBegin(r) ==
    /\ pc[r] = "write"
    /\ LET loop == WriteLoop(body[r], xref[r], uuids(body[r]))
       IN  /\ tx' = [tx EXCEPT ![r].write = "open",
                               ![r].device = device,
                               ![r].installs = imageInstall,
                               ![r].base = [device |-> device, installs |-> imageInstall],
                               ![r].pending = { loop.ops[i] @@ ("n" :> i) :
                                                  i \in DOMAIN loop.ops }]
           /\ IF loop.thrown # ""
              THEN /\ pc' = [pc EXCEPT ![r] = "aborting"]
                   /\ res' = [res EXCEPT ![r].error = loop.thrown, ![r].at = "loop"]
              ELSE /\ pc' = [pc EXCEPT ![r] = "ops"]
                   /\ res' = res
    /\ UNCHANGED <<device, imageInstall, idSeq, body, xref, hist>>
    /\ UNCHANGED <<cacheVars, routeVars>>

Running(r) == pc[r] \in {"ops", "aborting"}

LogEntry(o, table, kind, images, releases, changed) ==
    [ n |-> o.n, k |-> IF "k" \in DOMAIN o THEN o.k ELSE 0, table |-> table, op |-> kind,
      device |-> o.device, images |-> images, releases |-> releases, changed |-> changed ]

\* Lines 256-263: a device patch runs.
ExecPatch(r) ==
    /\ Running(r)
    /\ \E o \in {q \in tx[r].pending : q.op = "patch"} :
        LET p == PatchDevice(tx[r].device[o.device], o.body)
        IN  tx' = [tx EXCEPT
                ![r].device = [@ EXCEPT ![o.device] = p.row],
                ![r].pending = @ \ {o},
                ![r].log = @ \cup { LogEntry(o, "device", "patch", {},
                    IF "is_running__release" \in DOMAIN o.body
                    THEN o.body.is_running__release ELSE {}, p.changed)
                    @@ ("fields" :> DOMAIN o.body) }]
    /\ UNCHANGED <<device, imageInstall, idSeq, pc, body, xref, res, hist>>
    /\ UNCHANGED <<cacheVars, routeVars>>

\* Lines 319-345: the existing installs of a device are read and one upsert
\* per imgInstalls element is started.
ExecGet(r) ==
    /\ Running(r)
    /\ \E o \in {q \in tx[r].pending : q.op = "get"} :
        \E byImage \in existingImgInstallsByImage(
                           existingImgInstalls(tx[r].installs, o.device, imageIds(o.list))) :
            tx' = [tx EXCEPT
                ![r].pending = (@ \ {o}) \cup
                    { [ op |-> "upsert", n |-> o.n, k |-> i, device |-> o.device,
                        existing |-> IF o.list[i].imageId \in DOMAIN byImage
                                     THEN {byImage[o.list[i].imageId].id} ELSE {},
                        imgInstall |-> o.list[i] ] : i \in DOMAIN o.list },
                ![r].log = @ \cup { LogEntry(o, "image_install", "get",
                                             imageIds(o.list), {}, FALSE) }]
    /\ UNCHANGED <<device, imageInstall, idSeq, pc, body, xref, res, hist>>
    /\ UNCHANGED <<cacheVars, routeVars>>

\* Lines 337-344: one upsertImageInstall runs.
ExecUpsert(r) ==
    /\ Running(r)
    /\ \E o \in {q \in tx[r].pending : q.op = "upsert"} :
        LET u == upsertImageInstall(tx[r].installs, idSeq + 1, o.existing,
                                    o.imgInstall, o.device)
        IN  /\ tx' = [tx EXCEPT
                    ![r].installs = u.installs,
                    ![r].pending = @ \ {o},
                    ![r].log = @ \cup { LogEntry(o, "image_install", u.op,
                        {o.imgInstall.imageId}, {o.imgInstall.releaseId}, u.changed) }]
            /\ idSeq' = IF u.op = "insert" THEN idSeq + 1 ELSE idSeq
    /\ UNCHANGED <<device, imageInstall, pc, body, xref, res, hist>>
    /\ UNCHANGED <<cacheVars, routeVars>>

\* deleteOldImageInstalls called without the image ids the device claims.
ExecDeleteUnclaimed(r) ==
    /\ Running(r)
    /\ \E o \in {q \in tx[r].pending : q.op = "delete"} :
        LET d == deleteOldImageInstalls(tx[r].installs, o.device, {},
                                        {i.id : i \in xref[r].images})
        IN  tx' = [tx EXCEPT
                ![r].installs = d.installs,
                ![r].pending = @ \ {o},
                ![r].log = @ \cup { LogEntry(o, "image_install", "delete",
                                             o.imageIds, {}, d.changed) }]
    /\ UNCHANGED <<device, imageInstall, idSeq, pc, body, xref, res, hist>>
    /\ UNCHANGED <<cacheVars, routeVars>>

\* Lines 350-352: deleteOldImageInstalls of one device runs.
ExecDelete(r) ==
    /\ Running(r)
    /\ \E o \in {q \in tx[r].pending : q.op = "delete"} :
        LET d == deleteOldImageInstalls(tx[r].installs, o.device, o.imageIds,
                                        {i.id : i \in xref[r].images})
        IN  tx' = [tx EXCEPT
                ![r].installs = d.installs,
                ![r].pending = @ \ {o},
                ![r].log = @ \cup { LogEntry(o, "image_install", "delete",
                                             o.imageIds, {}, d.changed) }]
    /\ UNCHANGED <<device, imageInstall, idSeq, pc, body, xref, res, hist>>
    /\ UNCHANGED <<cacheVars, routeVars>>

\* A store or transport fault: an operation of the transaction rejects, and
\* so does Promise.all (line 356); the store runs no further operation of a
\* failed transaction.
OpFail(r) ==
    /\ pc[r] = "ops"
    /\ tx[r].pending # {}
    /\ res' = [res EXCEPT ![r].error = "StoreFault", ![r].at = "ops"]
    /\ pc' = [pc EXCEPT ![r] = "failed"]
    /\ UNCHANGED <<device, imageInstall, idSeq, body, xref, tx, hist>>
    /\ UNCHANGED <<cacheVars, routeVars>>

\* A transaction works on the rows it found when it was opened and on its
\* own writes. What it hands to the store on commit: the device rows it
\* changed, and the image_install rows it inserted, changed or deleted; the
\* rows it did not touch stay as other transactions committed them.
MergeDevice(store, base, copy) ==
    [d \in DOMAIN store |-> IF copy[d] # base[d] THEN copy[d] ELSE store[d]]

MergeInstalls(store, base, copy) ==
    {i \in store : i.id \notin {j.id : j \in base \ copy}} \cup (copy \ base)

\* What the store holds once a write transaction ends: its rows when it
\* commits, the rows before it when it is rolled back.
CommittedPartial(before, after, ok) == after

Committed(before, after, ok) == IF ok THEN after ELSE before

\* Lines 356-357: every operation resolved, the transaction commits.
Commit(r) ==
    /\ pc[r] = "ops"
    /\ tx[r].pending = {}
    /\ device' = Committed(device,
                            MergeDevice(device, tx[r].base.device, tx[r].device), TRUE)
    /\ imageInstall' = Committed(imageInstall,
                                  MergeInstalls(imageInstall, tx[r].base.installs,
                                                tx[r].installs), TRUE)
    /\ tx' = [tx EXCEPT ![r].write = "committed"]
    /\ pc' = [pc EXCEPT ![r] = "respond"]
    /\ UNCHANGED <<idSeq, body, xref, res, hist>>
    /\ UNCHANGED <<cacheVars, routeVars>>

\* Line 359: res.status(200).end()
RespondBeforeCommit(r) ==
    /\ pc[r] = "ops"
    /\ res' = [res EXCEPT ![r].status = 200]
    /\ pc' = [pc EXCEPT ![r] = "done"]
    /\ UNCHANGED <<device, imageInstall, idSeq, body, xref, tx, hist>>
    /\ UNCHANGED <<cacheVars, routeVars>>

Respond(r) ==
    /\ pc[r] = "respond"
    /\ res' = [res EXCEPT ![r].status = 200]
    /\ pc' = [pc EXCEPT ![r] = "done"]
    /\ UNCHANGED <<device, imageInstall, idSeq, body, xref, tx, hist>>
    /\ UNCHANGED <<cacheVars, routeVars>>

\* Lines 360-366: the transaction is rolled back and the error answered.
Rollback(r) ==
    /\ pc[r] \in {"aborting", "failed"}
    /\ device' = Committed(device, tx[r].device, FALSE)
    /\ imageInstall' = Committed(imageInstall, tx[r].installs, FALSE)
    /\ tx' = [tx EXCEPT ![r].write = "aborted"]
    /\ res' = [res EXCEPT ![r].status = StatusOf(res[r].error)]
    /\ pc' = [pc EXCEPT ![r] = "done"]
    /\ UNCHANGED <<idSeq, body, xref, hist>>
    /\ UNCHANGED <<cacheVars, routeVars>>

\* The device sends the same report again after a success.
Resubmit(r) ==
    /\ pc[r] = "done"
    /\ res[r].status = 200
    /\ hist[r].round < MaxSubmissions
    /\ hist' = [hist EXCEPT ![r] = [before |-> Store, round |-> @.round + 1]]
    /\ pc' = [pc EXCEPT ![r] = "readDevices"]
    /\ xref' = [xref EXCEPT ![r] = NoXref]
    /\ tx' = [tx EXCEPT ![r] = [NoTx EXCEPT !.read = "open"]]
    /\ res' = [res EXCEPT ![r] = NoRes]
    /\ UNCHANGED <<device, imageInstall, idSeq, body>>
    /\ UNCHANGED <<cacheVars, routeVars>>

\* The steps of a request once it is received.
Handle(r) ==
    \/ ReadDevices(r)
    \/ ReadImages(r)
    \/ ReadReleases(r)
    \/ ReadEnd(r)
    \/ WriteBegin(r)
    \/ ExecPatch(r)
    \/ ExecGet(r)
    \/ ExecUpsert(r)
    \/ ExecDelete(r)
    \/ OpFail(r)
    \/ Commit(r)
    \/ Respond(r)
    \/ Rollback(r)

Step(r) ==
    \/ Receive(r)
    \/ Handle(r)
    \/ Resubmit(r)

\* ------------------------------------------------------------------------
\* The device state routes: routes/index.ts, lines 96-111
\* ------------------------------------------------------------------------

\* setup: the functions registered for each route, in the order express
\* runs them; the last one is the handler of the route.
StateRoutes ==
    { [ method |-> "GET", path |-> "/device/v2/:uuid/state",
        handlers |-> <<"gracefullyDenyDeletedDevices", "apiKeyMiddleware", "stateV2">> ],
      [ method |-> "GET", path |-> "/device/v3/:uuid/state",
        handlers |-> <<"apiKeyMiddleware", "stateV3">> ],
      [ method |-> "PATCH", path |-> "/device/v2/:uuid/state",
        handlers |-> <<"gracefullyDenyDeletedDevices", "apiKeyMiddleware", "statePatchV2">> ],
      [ method |-> "PATCH", path |-> "/device/v3/state",
        handlers |-> <<"apiKeyMiddleware", "statePatchV3">> ] }

NoRoute == [method |-> "", path |-> "", handlers |-> <<>>]
NoHttp == [ stage |-> "idle", route |-> NoRoute, deleted |-> FALSE,
            credential |-> FALSE, ran |-> <<>> ]

\* A middleware answers the request itself instead of calling next(): the
\* guard for a deleted device, the credential middleware without a valid
\* credential.
Denies(name, req) ==
    CASE name = "gracefullyDenyDeletedDevices" -> req.deleted
      [] name = "apiKeyMiddleware" -> ~req.credential
      [] OTHER -> FALSE

InitRoutes == http = [r \in Reqs |-> NoHttp]

\* A request for one of the routes arrives, for a device that is deleted or
\* not, with a valid credential or not.
Dispatch(r) ==
    /\ http[r].stage # "running"
    /\ \E route \in StateRoutes, deleted \in BOOLEAN, credential \in BOOLEAN :
        http' = [http EXCEPT ![r] = [ stage |-> "running", route |-> route,
                                      deleted |-> deleted, credential |-> credential,
                                      ran |-> <<>> ]]
    /\ UNCHANGED <<patchVars, cacheVars>>

\* The next middleware of the route runs.
Middleware(r) ==
    /\ http[r].stage = "running"
    /\ Len(http[r].ran) + 1 < Len(http[r].route.handlers)
    /\ LET name == http[r].route.handlers[Len(http[r].ran) + 1]
       IN  http' = [http EXCEPT ![r].ran = Append(@, name),
                                ![r].stage = IF Denies(name, http[r])
                                             THEN "denied" ELSE "running"]
    /\ UNCHANGED <<patchVars, cacheVars>>

\* Every middleware called next(): the handler of the route is entered.
EnterHandler(r) ==
    /\ http[r].stage = "running"
    /\ Len(http[r].ran) + 1 = Len(http[r].route.handlers)
    /\ http' = [http EXCEPT ![r].ran = Append(@, http[r].route.handlers[Len(@) + 1]),
                            ![r].stage = "handled"]
    /\ UNCHANGED <<patchVars, cacheVars>>

\* ------------------------------------------------------------------------
\* The multi-tier cache: part_001
\* ------------------------------------------------------------------------

\* The API instances; each has its own memory tier, and they share redis.
Procs == {1, 2}

\* The callers of the memoized function: two inside instance 1, whose calls
\* can overlap, one inside instance 2.
Callers == {1, 2}
CallersOf(p) == IF p = 1 THEN Callers ELSE {1}

\* The tiers: redis, and the memory cache of each instance.
Redis == 0
Tiers == {Redis} \cup Procs

\* undefined; a template string renders it as "undefined".
Undefined == "undefined"

\* The versions the deployments run: instance 1 runs version 1, instance 2
\* the same version or the next one.
Versions == {"1", "2"}
VersionsOf(p) == IF p = 1 THEN {"1"} ELSE Versions

\* The cacheKey a memoized function is created with ("" is the name of an
\* anonymous function), and the one of the function that is called.
CacheKeyChoices == {"", "f"}
CacheKey == "f"

\* The argument list of the calls.
Args == <<"x">>

\* multiCacheMemoizee options: undefinedAs (or none) and preFetch (or none).
OptsChoices ==
    { [undefinedAs |-> u, preFetch |-> f] : u \in {Undefined, "s"}, f \in BOOLEAN }

\* What fn can resolve to: undefined only when undefinedAs is given (the
\* overloads of lines 18-42).
FnValues(o) ==
    IF o.undefinedAs = Undefined THEN {"a", "b"} ELSE {Undefined, o.undefinedAs, "a"}

\* memoizee/normalizers/primitive: the arguments as strings, joined.
RECURSIVE primitiveKey(_)
primitiveKey(a) ==
    IF a = <<>> THEN ""
    ELSE IF Len(a) = 1 THEN a[1]
    ELSE a[1] \o "\\1" \o primitiveKey(Tail(a))

\* Line 155: keyPrefix ??= `cache$${version}$${cacheKey}$`
keyPrefixUnversioned(keyPrefix, v, cacheKey) ==
    IF keyPrefix = "" THEN "cache$" \o cacheKey \o "$" ELSE keyPrefix

keyPrefixOf(keyPrefix, v, cacheKey) ==
    IF keyPrefix = "" THEN "cache$" \o v \o "$" \o cacheKey \o "$" ELSE keyPrefix

\* Lines 151-157: getKey(...args)
getKey(p) == keyPrefixOf(memo[p].keyPrefix, version[p], CacheKey) \o primitiveKey(Args)

\* Line 166: valueToCache === undefined ? undefinedAs : valueToCache
ToCache(valueToCache, undefinedAs) ==
    IF valueToCache = Undefined THEN undefinedAs ELSE valueToCache

\* Line 169: valueFromCache === undefinedAs ? undefined : valueFromCache
FromCacheRaw(valueFromCache, undefinedAs) == valueFromCache

FromCache(valueFromCache, undefinedAs) ==
    IF valueFromCache = undefinedAs THEN Undefined ELSE valueFromCache

\* A cache entry: its value, whether its remaining lifetime is above the
\* refresh threshold, and the version of the instance that stored it.
Entry(value, v) == [value |-> value, fresh |-> TRUE, version |-> v]

Without(cache, key) == [k \in DOMAIN cache \ {key} |-> cache[k]]
With(cache, key, e) == (key :> e) @@ cache

NoWrap == [phase |-> "none", waiters |-> {}, fnReturned |-> "", data |-> ""]
NoRefresh == [phase |-> "none", data |-> ""]
NoCall == [ st |-> "idle", value |-> "", via |-> "", expect |-> "",
            stable0 |-> FALSE, stable |-> FALSE,
            next |-> FALSE, quiet |-> FALSE, late |-> FALSE ]
NoSince == [settled0 |-> FALSE, settled |-> FALSE, value |-> "", deleted |-> "none"]

InitCache ==
    /\ version = [p \in Procs |-> Undefined]
    /\ usedCacheKeys = [p \in Procs |-> {}]
    /\ memo = [p \in Procs |-> [ created |-> [k \in CacheKeyChoices |-> 0],
                                 error |-> "", keyPrefix |-> "" ]]
    /\ opts \in OptsChoices
    /\ caches = [t \in Tiers |-> EmptyObj]
    /\ wrap = [p \in Procs |-> NoWrap]
    /\ refresh = [p \in Procs |-> NoRefresh]
    /\ call = [p \in Procs |-> [c \in Callers |-> NoCall]]
    /\ since = [p \in Procs |-> NoSince]

\* The deployment sets its version (lib/config) when it starts; an instance
\* whose modules threw while they loaded does not start.
SetVersion(p) ==
    /\ version[p] = Undefined
    /\ memo[p].error = ""
    /\ \E v \in VersionsOf(p) : version' = [version EXCEPT ![p] = v]
    /\ UNCHANGED <<usedCacheKeys, memo, opts, caches, wrap, refresh, call, since>>
    /\ UNCHANGED <<patchVars, routeVars>>

\* Lines 54-100 and 133-136: a memoized function is created, which happens
\* when the modules load, before the version is set (lines 152-154); an
\* empty cacheKey and a cacheKey already taken throw.
multiCacheMemoizee(p) ==
    /\ version[p] = Undefined
    /\ memo[p].error = ""
    /\ \E cacheKey \in CacheKeyChoices :
        IF cacheKey = ""
        THEN /\ memo' = [memo EXCEPT ![p].error = "cacheKey cannot be empty"]
             /\ usedCacheKeys' = usedCacheKeys
        ELSE IF cacheKey \in usedCacheKeys[p]
        THEN /\ memo' = [memo EXCEPT ![p].error = "Cache key has already been taken"]
             /\ usedCacheKeys' = usedCacheKeys
        ELSE /\ usedCacheKeys' = [usedCacheKeys EXCEPT ![p] = @ \cup {cacheKey}]
             /\ memo' = [memo EXCEPT ![p].created[cacheKey] = @ + 1, ![p].error = ""]
    /\ UNCHANGED <<version, opts, caches, wrap, refresh, call, since>>
    /\ UNCHANGED <<patchVars, routeVars>>

\* The calls of instance p once those of waiters are answered with the
\* cached value valueFromCache (line 169).
Filled(p, waiters, valueFromCache, via) ==
    [ c \in Callers |->
        IF c \in waiters
        THEN [ NoCall EXCEPT !.st = "done",
                             !.value = FromCache(valueFromCache, opts.undefinedAs),
                             !.via = via ]
        ELSE call[p][c] ]

\* Instance q uses the key.
UsesKey(q, key) ==
    memo[q].keyPrefix # "" /\ memo[q].keyPrefix \o primitiveKey(Args) = key

\* What instance q has seen since its last delete, once a value is stored
\* under key in a tier it reads.
StoredSince(q, key) ==
    IF since[q].deleted = "deleted" /\ UsesKey(q, key)
    THEN [since[q] EXCEPT !.deleted = "stored"]
    ELSE since[q]

\* The waiting calls of instance q, once a value is stored under key in a
\* tier it reads.
StoredDuring(q, key) ==
    [ c \in Callers |->
        IF call[q][c].st = "waiting" /\ UsesKey(q, key)
        THEN [call[q][c] EXCEPT !.quiet = FALSE]
        ELSE call[q][c] ]

\* The waiting calls of instance p, once its entry was deleted or expired
\* (both) or fell under the refresh threshold.
Unsettled(p, both) ==
    [ c \in Callers |->
        IF call[p][c].st = "waiting"
        THEN [call[p][c] EXCEPT !.stable = FALSE, !.stable0 = @ /\ ~both]
        ELSE call[p][c] ]

\* Lines 158-160: the memoized function is called: getKey, then cache.wrap,
\* which joins the wrap under way for the key if there is one.  Calls are
\* served once the deployment has set its version (lines 152-154).
memoizedFn(p, c) ==
    /\ call[p][c].st = "idle"
    /\ memo[p].created[CacheKey] > 0
    /\ version[p] # Undefined
    /\ memo' = [memo EXCEPT ![p].keyPrefix = keyPrefixOf(@, version[p], CacheKey)]
    /\ call' = [call EXCEPT ![p][c] =
                  [ NoCall EXCEPT !.st = "waiting",
                                  !.stable0 = since[p].settled0,
                                  !.stable = since[p].settled,
                                  !.expect = since[p].value,
                                  !.next = since[p].deleted # "none",
                                  !.quiet = since[p].deleted = "deleted"
                                            /\ wrap[p].phase # "store"
                                            /\ refresh[p].phase = "none",
                                  !.late = wrap[p].phase = "store" ]]
    /\ wrap' = [wrap EXCEPT ![p] =
                  IF @.phase = "none"
                  THEN [NoWrap EXCEPT !.phase = "lookup", !.waiters = {c}]
                  ELSE [@ EXCEPT !.waiters = @ \cup {c}]]
    /\ since' = [since EXCEPT ![p].deleted = "none"]
    /\ UNCHANGED <<version, usedCacheKeys, opts, caches, refresh>>
    /\ UNCHANGED <<patchVars, routeVars>>

\* cache.wrap looks the key up, memory first, then redis (a redis hit is
\* copied to memory); a hit answers the waiting calls, and starts a
\* background refresh when the entry is under the refresh threshold.
WrapLookup(p) ==
    /\ wrap[p].phase = "lookup"
    /\ LET key == getKey(p)
           inMemory == key \in DOMAIN caches[p]
           inRedis == key \in DOMAIN caches[Redis]
       IN  IF inMemory \/ inRedis
           THEN LET e == IF inMemory THEN caches[p][key] ELSE caches[Redis][key]
                    expiring == opts.preFetch /\ ~e.fresh
                    starts == expiring /\ refresh[p].phase = "none"
                IN  /\ caches' = IF inMemory THEN caches
                                 ELSE [caches EXCEPT ![p] = With(@, key, [e EXCEPT !.fresh = TRUE])]
                    /\ call' = [call EXCEPT ![p] =
                                  Filled(p, wrap[p].waiters, e.value, "hit")]
                    /\ wrap' = [wrap EXCEPT ![p] = NoWrap]
                    /\ refresh' = IF starts
                                  THEN [refresh EXCEPT ![p] = [NoRefresh EXCEPT !.phase = "work"]]
                                  ELSE refresh
                    /\ since' = [since EXCEPT
                                   ![p].settled0 = TRUE,
                                   ![p].settled = ~expiring /\ refresh[p].phase = "none",
                                   ![p].value = FromCache(e.value, opts.undefinedAs)]
           ELSE /\ wrap' = [wrap EXCEPT ![p].phase = "work"]
                /\ UNCHANGED <<caches, call, refresh, since>>
    /\ UNCHANGED <<version, usedCacheKeys, memo, opts>>
    /\ UNCHANGED <<patchVars, routeVars>>

\* Lines 162-167: on a miss fn is invoked and undefined becomes undefinedAs.
WrapWork(p) ==
    /\ wrap[p].phase = "work"
    /\ \E v \in FnValues(opts) :
        wrap' = [wrap EXCEPT ![p].phase = "store", ![p].fnReturned = v,
                             ![p].data = ToCache(v, opts.undefinedAs)]
    /\ UNCHANGED <<version, usedCacheKeys, memo, opts, caches, refresh, call, since>>
    /\ UNCHANGED <<patchVars, routeVars>>

\* cache.wrap stores the value in both tiers (undefined is not cacheable) and
\* answers every call that waits for the key.
WrapStore(p) ==
    /\ wrap[p].phase = "store"
    /\ LET key == getKey(p)
           data == wrap[p].data
       IN  /\ caches' = IF data = Undefined THEN caches
                        ELSE [caches EXCEPT ![p] = With(@, key, Entry(data, version[p])),
                                            ![Redis] = With(@, key, Entry(data, version[p]))]
           /\ call' = [q \in Procs |->
                         IF q = p
                         THEN Filled(p, wrap[p].waiters, data, "work")
                         ELSE StoredDuring(q, key)]
           /\ since' = [q \in Procs |->
                          IF q = p
                          THEN [ StoredSince(p, key) EXCEPT
                                   !.settled0 = TRUE,
                                   !.settled = refresh[p].phase = "none",
                                   !.value = FromCache(data, opts.undefinedAs) ]
                          ELSE StoredSince(q, key)]
    /\ wrap' = [wrap EXCEPT ![p] = NoWrap]
    /\ UNCHANGED <<version, usedCacheKeys, memo, opts, refresh>>
    /\ UNCHANGED <<patchVars, routeVars>>

\* The background refresh invokes fn (lines 162-167).
RefreshWork(p) ==
    /\ refresh[p].phase = "work"
    /\ \E v \in FnValues(opts) :
        refresh' = [refresh EXCEPT ![p].phase = "store",
                                   ![p].data = ToCache(v, opts.undefinedAs)]
    /\ UNCHANGED <<version, usedCacheKeys, memo, opts, caches, wrap, call, since>>
    /\ UNCHANGED <<patchVars, routeVars>>

\* The background refresh stores its value: in the memory tier, or in both.
RefreshStore(p) ==
    /\ refresh[p].phase = "store"
    /\ \E ts \in {{p}, {p, Redis}} :
        LET key == getKey(p)
            data == refresh[p].data
            reads(q) == q = p \/ Redis \in ts
        IN  /\ caches' = IF data = Undefined THEN caches
                         ELSE [t \in Tiers |->
                                 IF t \in ts
                                 THEN With(caches[t], key, Entry(data, version[p]))
                                 ELSE caches[t]]
            /\ call' = [q \in Procs |-> IF reads(q) THEN StoredDuring(q, key) ELSE call[q]]
            /\ since' = [q \in Procs |-> IF reads(q) THEN StoredSince(q, key) ELSE since[q]]
    /\ refresh' = [refresh EXCEPT ![p] = NoRefresh]
    /\ UNCHANGED <<version, usedCacheKeys, memo, opts, wrap>>
    /\ UNCHANGED <<patchVars, routeVars>>

\* cache.del of the memory tier only.
memoizedFnDeleteLocal(p) ==
    /\ memo[p].created[CacheKey] > 0
    /\ version[p] # Undefined
    /\ memo' = [memo EXCEPT ![p].keyPrefix = keyPrefixOf(@, version[p], CacheKey)]
    /\ caches' = [caches EXCEPT ![p] = Without(@, getKey(p))]
    /\ since' = [since EXCEPT ![p].settled0 = FALSE, ![p].settled = FALSE,
                              ![p].deleted = "deleted"]
    /\ call' = [call EXCEPT ![p] = Unsettled(p, TRUE)]
    /\ UNCHANGED <<version, usedCacheKeys, opts, wrap, refresh>>
    /\ UNCHANGED <<patchVars, routeVars>>

\* Lines 172-175: memoizedFn.delete: getKey, then cache.del, which removes
\* the key from both tiers.
memoizedFnDelete(p) ==
    /\ memo[p].created[CacheKey] > 0
    /\ version[p] # Undefined
    /\ memo' = [memo EXCEPT ![p].keyPrefix = keyPrefixOf(@, version[p], CacheKey)]
    /\ caches' = [caches EXCEPT ![p] = Without(@, getKey(p)),
                                ![Redis] = Without(@, getKey(p))]
    /\ since' = [since EXCEPT ![p].settled0 = FALSE, ![p].settled = FALSE,
                              ![p].deleted = "deleted"]
    /\ call' = [call EXCEPT ![p] = Unsettled(p, TRUE)]
    /\ UNCHANGED <<version, usedCacheKeys, opts, wrap, refresh>>
    /\ UNCHANGED <<patchVars, routeVars>>

\* The remaining lifetime of an entry falls under the refresh threshold
\* (lines 82-85: there is one when preFetch is given).
Age(t) ==
    /\ opts.preFetch
    /\ \E key \in DOMAIN caches[t] :
        /\ caches[t][key].fresh
        /\ caches' = [caches EXCEPT ![t][key].fresh = FALSE]
    /\ IF t \in Procs
       THEN /\ since' = [since EXCEPT ![t].settled = FALSE]
            /\ call' = [call EXCEPT ![t] = Unsettled(t, FALSE)]
       ELSE UNCHANGED <<since, call>>
    /\ UNCHANGED <<version, usedCacheKeys, memo, opts, wrap, refresh>>
    /\ UNCHANGED <<patchVars, routeVars>>

\* An entry leaves its tier: maxAge has passed, or max was reached.
Expire(t) ==
    /\ \E key \in DOMAIN caches[t] : caches' = [caches EXCEPT ![t] = Without(@, key)]
    /\ IF t \in Procs
       THEN /\ since' = [since EXCEPT ![t].settled0 = FALSE, ![t].settled = FALSE]
            /\ call' = [call EXCEPT ![t] = Unsettled(t, TRUE)]
       ELSE UNCHANGED <<since, call>>
    /\ UNCHANGED <<version, usedCacheKeys, memo, opts, wrap, refresh>>
    /\ UNCHANGED <<patchVars, routeVars>>

\* ------------------------------------------------------------------------
\* Specifications
\* ------------------------------------------------------------------------

\* The routes and the cache at rest.
RoutesIdle == InitRoutes
CacheIdle == InitCache /\ opts = [undefinedAs |-> Undefined, preFetch |-> FALSE]

\* statePatchV3 at rest, on one store.
PatchIdle ==
    /\ InitPatch
    /\ imageInstall = {}
    /\ device[1].status = "Idle"

Init == InitPatch /\ RoutesIdle /\ CacheIdle

\* Requests handled one at a time: request 1, submitted up to MaxSubmissions
\* times; Step is written per request so that requests can also interleave.
Next == Step(1)

Spec == Init /\ [][Next]_vars

\* ------------------------------------------------------------------------
\* Concurrent requests
\* ------------------------------------------------------------------------

\* The reports of concurrent requests: device d1 reports an image of its
\* release, its status, or another image of its release.
ConcBodies ==
    { [ keys |-> {"d1"}, val |-> ("d1" :> st) ] :
        st \in { [apps |-> ("a1" :> [releases |-> ("r1" :> [services |->
                     ("main" :> [image |-> "img-loc-1", status |-> "Running"])])])],
                 [status |-> "Idle"],
                 [apps |-> ("a1" :> [release_uuid |-> "r1",
                            releases |-> ("r1" :> [services |->
                     ("main" :> [image |-> "img-loc-2", status |-> "Downloading",
                                 download_progress |-> 50])])])] } }

ReceiveConc(r) == ReceiveFrom(r, ConcBodies)

InitConc == Init /\ Cardinality(imageInstall) <= 1

\* Every request runs its own read transaction, then its own write
\* transaction; their steps interleave.
NextConc == \E r \in Reqs : ReceiveConc(r) \/ Handle(r)

SpecConc == InitConc /\ [][NextConc]_vars

\* The requests on the device state routes.
NextRoutes == \E r \in Reqs : Dispatch(r) \/ Middleware(r) \/ EnterHandler(r)

InitRoutesOnly == PatchIdle /\ RoutesIdle /\ CacheIdle

SpecRoutes == InitRoutesOnly /\ [][NextRoutes]_vars

\* The instances and their calls of the memoized function.
NextCache ==
    \/ \E p \in Procs :
          \/ SetVersion(p)
          \/ multiCacheMemoizee(p)
          \/ \E c \in CallersOf(p) : memoizedFn(p, c)
          \/ WrapLookup(p)
          \/ WrapWork(p)
          \/ WrapStore(p)
          \/ RefreshWork(p)
          \/ RefreshStore(p)
          \/ memoizedFnDelete(p)
    \/ \E t \in Tiers : Age(t) \/ Expire(t)

InitCacheOnly == PatchIdle /\ RoutesIdle /\ InitCache

SpecCache == InitCacheOnly /\ [][NextCache]_vars

\* ------------------------------------------------------------------------
\* Vocabulary of the properties
\* ------------------------------------------------------------------------

Started(r) == pc[r] # "idle"
Done(r) == pc[r] = "done"
Accepted(r) == Done(r) /\ res[r].status = 200

\* The read phase let the batch through.
ReadAccepted(r) == tx[r].read = "closed" /\ res[r].at \notin {"devices", "images", "releases"}

DeviceOfUuid(u) == CHOOSE d \in DeviceTable : d.uuid = u
OwnerApp(d) == (CHOOSE q \in DeviceTable : q.id = d).belongs_to__application[1].uuid

\* The non-null device entries of the batch that carry an apps object.
WithApps(b) == {u \in DOMAIN b.val : HasApps(b.val[u])}

\* Every (application, commit) pair the batch references.
ReferencedCommits(b) ==
    UNION { UNION { {<<a, c>> : c \in EntryCommits(b.val[u].apps[a])} :
                    a \in DOMAIN b.val[u].apps } : u \in WithApps(b) }

\* Every (uuid, application, commit, service name) path of the batch that
\* ends in a service.
ServicePaths(b) ==
    { p \in (DOMAIN b.val) \X Range(AppOrder) \X Range(CommitOrder) \X Range(ServiceOrder) :
        /\ HasApps(b.val[p[1]])
        /\ p[2] \in DOMAIN b.val[p[1]].apps
        /\ "releases" \in DOMAIN b.val[p[1]].apps[p[2]]
        /\ p[3] \in DOMAIN b.val[p[1]].apps[p[2]].releases
        /\ "services" \in DOMAIN b.val[p[1]].apps[p[2]].releases[p[3]]
        /\ p[4] \in DOMAIN b.val[p[1]].apps[p[2]].releases[p[3]].services }

ServiceAt(b, p) == b.val[p[1]].apps[p[2]].releases[p[3]].services[p[4]]

\* The image locations the batch references, as a set.
ReferencedLocations(b) == {ServiceAt(b, p).image : p \in ServicePaths(b)}

KnownLocations == {i.is_stored_at__image_location : i \in ImageTable}
KnownUuids == {d.uuid : d \in DeviceTable}
KnownCommits == {<<q.belongs_to__application, q.commit>> : q \in ReleaseTable}

\* The batch names a device, an image location or an (application, commit)
\* pair that the store does not hold.
Unresolvable(b) ==
    \/ \E u \in DOMAIN b.val : u \notin KnownUuids
    \/ \E l \in ReferencedLocations(b) : l \notin KnownLocations
    \/ \E ac \in ReferencedCommits(b) : ac \notin KnownCommits

\* ------------------------------------------------------------------------
\* C1
\* ------------------------------------------------------------------------

\* C1: a batch with a device entry that names a device uuid, an image
\* location or an (application, commit) pair the read phase cannot resolve
\* never changes the store and ends with status 401.
AuthorizationCompleteness ==
    \A r \in Reqs :
        (Started(r) /\ uuids(body[r]) # <<>> /\ Unresolvable(body[r]))
            => /\ Store = hist[r].before
               /\ Done(r) => res[r].status = 401 /\ res[r].error = "UnauthorizedError"

\* A batch whose devices and images resolve was rejected for a release
\* commit that its application does not hold.
AuthorizationCompletenessWitness ==
    \E r \in Reqs :
        /\ Done(r) /\ Unresolvable(body[r])
        /\ res[r].status = 401 /\ res[r].at = "releases"

\* ------------------------------------------------------------------------
\* C2
\* ------------------------------------------------------------------------

\* C2: once the image check of the read phase has run, the batch was rejected
\* by it if and only if some referenced image location has no Image row; two
\* services that name the same location do not matter.
ImageCheckIsOverTheSet ==
    \A r \in Reqs :
        (Started(r) /\ pc[r] \notin {"readDevices", "readImages"}
                    /\ res[r].at \notin {"body", "devices"})
            => (res[r].at = "images"
                  <=> \E l \in ReferencedLocations(body[r]) : l \notin KnownLocations)

\* ------------------------------------------------------------------------
\* C3
\* ------------------------------------------------------------------------

\* C3: whenever a step changes is_running__release of a device row, the new
\* value is the id of a release that belongs to the device's own application.
CrossApplicationIsolation ==
    [][ \A d \in DeviceIds :
          device'[d].is_running__release # device[d].is_running__release
            => \E q \in ReleaseTable :
                 /\ device'[d].is_running__release = {q.id}
                 /\ q.belongs_to__application = OwnerApp(d) ]_vars

\* A committed report changed the running release of a device whose report
\* also names another application.
CrossApplicationIsolationWitness ==
    \E r \in Reqs : \E u \in WithApps(body[r]) :
        /\ Accepted(r)
        /\ u \in KnownUuids
        /\ DOMAIN body[r].val[u].apps # {OwnerApp(DeviceOfUuid(u).id)}
        /\ device[DeviceOfUuid(u).id].is_running__release
             # hist[r].before.device[DeviceOfUuid(u).id].is_running__release

\* ------------------------------------------------------------------------
\* C4
\* ------------------------------------------------------------------------

\* C4: a batch that the read phase accepted and in which some device's apps
\* object names only applications other than the device's own is answered
\* 200, unless the store itself failed.
ForeignAppsAreIgnored ==
    \A r \in Reqs :
        ( /\ Done(r) /\ ReadAccepted(r) /\ res[r].error # "StoreFault"
          /\ \E u \in WithApps(body[r]) :
               /\ DOMAIN body[r].val[u].apps # {}
               /\ OwnerApp(DeviceOfUuid(u).id) \notin DOMAIN body[r].val[u].apps )
            => res[r].status = 200

\* ------------------------------------------------------------------------
\* C5
\* ------------------------------------------------------------------------

\* The operations of a batch applied one after the other, in the order the
\* loop issued them, to st = [device, installs, idSeq].
RECURSIVE ApplyUpserts(_, _, _, _, _)
ApplyUpserts(st, deviceId, byImage, list, i) ==
    IF i > Len(list)
    THEN st
    ELSE LET existing == IF list[i].imageId \in DOMAIN byImage
                         THEN {byImage[list[i].imageId].id} ELSE {}
             u == upsertImageInstall(st.installs, st.idSeq + 1, existing, list[i], deviceId)
         IN  ApplyUpserts([st EXCEPT !.installs = u.installs, !.idSeq = @ + 1],
                          deviceId, byImage, list, i + 1)

RECURSIVE ApplyOps(_, _, _)
ApplyOps(st, ops, scope) ==
    IF ops = <<>>
    THEN st
    ELSE LET o == Head(ops)
             next ==
               CASE o.op = "patch" ->
                      [st EXCEPT !.device[o.device] = PatchDevice(@, o.body).row]
                 [] o.op = "get" ->
                      ApplyUpserts(st, o.device,
                          CHOOSE f \in existingImgInstallsByImage(
                              existingImgInstalls(st.installs, o.device, imageIds(o.list))) : TRUE,
                          o.list, 1)
                 [] OTHER ->
                      [st EXCEPT !.installs =
                          deleteOldImageInstalls(@, o.device, o.imageIds, scope).installs]
         IN  ApplyOps(next, Tail(ops), scope)

\* The store with every operation of the batch of request r applied to the
\* store the request found.
AllApplied(r) ==
    ApplyOps([ device |-> hist[r].before.device,
               installs |-> hist[r].before.imageInstall,
               idSeq |-> idSeq ],
             WriteLoop(body[r], xref[r], uuids(body[r])).ops,
             {i.id : i \in xref[r].images})

\* image_install rows without their ids.
NoIds(installs) == { [k \in DOMAIN i \ {"id"} |-> i[k]] : i \in installs }

\* The same rows up to the ids the store gave them.
SameRows(a, b) == NoIds(a) = NoIds(b) /\ Cardinality(a) = Cardinality(b)

\* C5: until the write transaction commits, and after a request that ended in
\* an error, the store is the store the request found; once it has
\* committed, the store holds every operation of the batch.
Atomicity ==
    \A r \in Reqs :
        Started(r) =>
            /\ tx[r].write # "committed" => Store = hist[r].before
            /\ (Done(r) /\ res[r].error # "") => Store = hist[r].before
            /\ tx[r].write = "committed" =>
                 /\ res[r].error = ""
                 /\ device = AllApplied(r).device
                 /\ SameRows(imageInstall, AllApplied(r).installs)

\* A request failed in the loop over the devices after an operation issued
\* for an earlier device had already changed rows inside the transaction.
AtomicityWitness ==
    \E r \in Reqs :
        /\ Done(r) /\ res[r].status = 500 /\ res[r].at = "loop"
        /\ \E e \in tx[r].log : e.changed

\* ------------------------------------------------------------------------
\* C6
\* ------------------------------------------------------------------------

\* The report of uuid u gives nothing to patch on the device row.
EmptyPatch(b, u) ==
    /\ DOMAIN b.val[u] \cap (validPatchFields \cup {"name"}) = {}
    /\ \/ ~HasApps(b.val[u])
       \/ OwnerApp(DeviceOfUuid(u).id) \notin DOMAIN b.val[u].apps
       \/ "release_uuid" \notin DOMAIN b.val[u].apps[OwnerApp(DeviceOfUuid(u).id)]

\* C6: while and after an accepted report is submitted again, the store stays
\* what the first submission left, no device patch of the second submission
\* changes a row, and a device whose report gives nothing to patch gets no
\* device write in any submission.
Idempotence ==
    \A r \in Reqs :
        /\ (Started(r) /\ hist[r].round >= 2) =>
              /\ Store = hist[r].before
              /\ \A e \in tx[r].log : ~e.changed
        /\ \A u \in DOMAIN body[r].val \cap KnownUuids :
              EmptyPatch(body[r], u) =>
                 ~\E e \in tx[r].log : e.table = "device" /\ e.device = DeviceOfUuid(u).id

\* The second submission of a report ran a device patch and an update of an
\* existing install, and changed nothing.
IdempotenceWitness ==
    \E r \in Reqs :
        /\ Accepted(r) /\ hist[r].round = 2
        /\ \E e \in tx[r].log : e.table = "device"
        /\ \E e \in tx[r].log : e.op = "update"
        /\ \E e \in tx[r].log : e.op = "delete"

\* ------------------------------------------------------------------------
\* C7
\* ------------------------------------------------------------------------

ImageIdAt(location) ==
    (CHOOSE i \in ImageTable : i.is_stored_at__image_location = location).id

ReleaseIdAt(app, commit) ==
    (CHOOSE q \in ReleaseTable : q.belongs_to__application = app /\ q.commit = commit).id

\* What the report of uuid u claims to have installed: one element per
\* service, with the ids of its image and of its release.
Claimed(b, u) ==
    { [ installs__image |-> ImageIdAt(ServiceAt(b, p).image),
        is_provided_by__release |-> ReleaseIdAt(p[2], p[3]),
        status |-> ServiceAt(b, p).status,
        download_progress |-> IF "download_progress" \in DOMAIN ServiceAt(b, p)
                              THEN {ServiceAt(b, p).download_progress} ELSE {} ] :
        p \in {q \in ServicePaths(b) : q[1] = u} }

\* The images in scope: those the batch references.
ScopeIds(b) == {ImageIdAt(l) : l \in ReferencedLocations(b) \cap KnownLocations}

\* The columns of an install row that a claim sets.
ClaimOf(row) ==
    [ installs__image |-> row.installs__image,
      is_provided_by__release |-> row.is_provided_by__release,
      status |-> row.status,
      download_progress |-> row.download_progress ]

\* C7: after an accepted report, for every device that sent an apps object,
\* with E its installs in scope before the request and C its claimed images:
\* the inserts are one per image of C \ E, an update changes a row only for an
\* image of C \cap E whose row differed from the claim, the rows of E \ C are
\* gone, the rows of C \cap E keep their ids, and the device's installs in
\* scope are one row per image of C carrying the claim.
DifferCorrectness ==
    \A r \in Reqs : \A u \in WithApps(body[r]) :
        Accepted(r) =>
            LET d == DeviceOfUuid(u).id
                scope == ScopeIds(body[r])
                E == {i \in hist[r].before.imageInstall :
                        i.device = d /\ i.installs__image \in scope}
                Eimgs == {i.installs__image : i \in E}
                claims == Claimed(body[r], u)
                Cimgs == {c.installs__image : c \in claims}
                after == {i \in imageInstall : i.device = d /\ i.installs__image \in scope}
                inserts == {e \in tx[r].log : e.op = "insert" /\ e.device = d}
                updates == {e \in tx[r].log : e.op = "update" /\ e.device = d /\ e.changed}
            IN  /\ UNION {e.images : e \in inserts} = Cimgs \ Eimgs
                /\ Cardinality(inserts) = Cardinality(Cimgs \ Eimgs)
                /\ \A e \in updates :
                     /\ e.images \subseteq Cimgs \cap Eimgs
                     /\ \E i \in E : i.installs__image \in e.images /\ ClaimOf(i) \notin claims
                /\ \A i \in E : i.installs__image \notin Cimgs
                                  => ~\E j \in imageInstall : j.id = i.id
                /\ \A i \in E : i.installs__image \in Cimgs
                                  => \E j \in after : j.id = i.id
                                                       /\ j.installs__image = i.installs__image
                /\ {ClaimOf(i) : i \in after} = claims
                /\ Cardinality(after) = Cardinality(Cimgs)

\* One accepted report inserted a row, changed an existing row and deleted
\* a row.
DifferCorrectnessWitness ==
    \E r \in Reqs :
        /\ Accepted(r)
        /\ \E e \in tx[r].log : e.op = "insert"
        /\ \E e \in tx[r].log : e.op = "update" /\ e.changed
        /\ \E e \in tx[r].log : e.op = "delete" /\ e.changed

\* ------------------------------------------------------------------------
\* C8
\* ------------------------------------------------------------------------

PhaseOrdering ==
    [][ \A r \in Reqs :
          /\ (tx[r].write = "none" /\ tx'[r].write # "none")
                => /\ tx[r].read = "closed"
                   /\ res[r].error = ""
                   /\ uuids(body[r]) # <<>>
                   /\ tx'[r].read = "closed"
          /\ (tx[r].read = "open" \/ tx'[r].read = "open")
                => (device' = device /\ imageInstall' = imageInstall)
          /\ (res[r].status # 200 /\ res'[r].status = 200)
                => tx[r].write = "committed" ]_vars

\* A request was answered 200 after both of its transactions had ended.
PhaseOrderingWitness ==
    \E r \in Reqs :
        /\ Accepted(r)
        /\ tx[r].read = "closed" /\ tx[r].write = "committed"
        /\ \E e \in tx[r].log : e.changed

\* ------------------------------------------------------------------------
\* C10
\* ------------------------------------------------------------------------

XrefDeviceIds(r) == {d.id : d \in xref[r].devices}
XrefImageIds(r) == {i.id : i \in xref[r].images}
XrefReleaseIds(r) ==
    UNION { {q.id : q \in xref[r].appReleases[a]} : a \in DOMAIN xref[r].appReleases }

\* C10: every operation of the write transaction, issued or run, names only
\* device ids, image ids and release ids that the read phase of the same
\* request returned, and a device patch sets no id column other than
\* is_running__release.
WritesUseResolvedIds ==
    \A r \in Reqs :
        /\ \A e \in tx[r].log :
              /\ e.device \in XrefDeviceIds(r)
              /\ e.images \subseteq XrefImageIds(r)
              /\ e.releases \subseteq XrefReleaseIds(r)
              /\ e.op = "patch" => e.fields \subseteq
                    validPatchFields \cup {"device_name", "is_running__release"}
        /\ \A o \in tx[r].pending :
              /\ o.device \in XrefDeviceIds(r)
              /\ o.op = "upsert" =>
                    /\ o.imgInstall.imageId \in XrefImageIds(r)
                    /\ o.imgInstall.releaseId \in XrefReleaseIds(r)
              /\ o.op = "delete" => o.imageIds \subseteq XrefImageIds(r)
              /\ o.op = "patch" =>
                    ("is_running__release" \in DOMAIN o.body
                        => o.body.is_running__release \subseteq XrefReleaseIds(r))

\* A committed report of a device that also sent parent_device patched the
\* running release and inserted an install.
WritesUseResolvedIdsWitness ==
    \E r \in Reqs :
        /\ Accepted(r)
        /\ \E u \in DOMAIN body[r].val : "parent_device" \in DOMAIN body[r].val[u]
        /\ \E e \in tx[r].log : e.op = "patch" /\ e.releases # {}
        /\ \E e \in tx[r].log : e.op = "insert"

\* ------------------------------------------------------------------------
\* C11. Whatever the interleaving of concurrent statePatchV3 requests, every
\* committed store holds at most one image_install row per (device, image).
\* ------------------------------------------------------------------------

OneInstallPerDeviceAndImage ==
    \A i \in imageInstall : \A j \in imageInstall :
        (i.device = j.device /\ i.installs__image = j.installs__image) => i = j

\* ------------------------------------------------------------------------
\* C12. A batch without any non-null device entry is answered with the
\* malformed-request error before any store access: neither transaction is
\* opened, nothing is resolved and the store is unchanged.
\* ------------------------------------------------------------------------

NoDeviceEntry(r) == DOMAIN body[r].val = {}

EmptyBatchIsMalformed ==
    \A r \in Reqs :
        (Started(r) /\ NoDeviceEntry(r)) =>
            /\ Done(r)
            /\ res[r] = [status |-> 400, error |-> "BadRequestError", at |-> "body"]
            /\ tx[r] = NoTx
            /\ xref[r] = NoXref
            /\ Store = hist[r].before

\* A body whose only entries are null is answered 400.
EmptyBatchIsMalformedWitness ==
    \E r \in Reqs :
        /\ Done(r)
        /\ NoDeviceEntry(r)
        /\ body[r].keys # {}
        /\ res[r].status = 400

\* ------------------------------------------------------------------------
\* C15
\* ------------------------------------------------------------------------

IndexIn(seq, x) == CHOOSE i \in DOMAIN seq : seq[i] = x

\* The position of a service path in the iteration of lines 283-311:
\* applications, then releases, then services, each in entry order.
PathRank(p) ==
    (IndexIn(AppOrder, p[2]) * (Len(CommitOrder) + 1) + IndexIn(CommitOrder, p[3]))
        * (Len(ServiceOrder) + 1) + IndexIn(ServiceOrder, p[4])

\* The service paths of device entry u that name image location l.
PathsNaming(b, u, l) == {p \in ServicePaths(b) : p[1] = u /\ ServiceAt(b, p).image = l}

\* The (uuid, location) pairs that one report names more than once.
Duplicated(b) ==
    { ul \in (DOMAIN b.val) \X ReferencedLocations(b) :
        Cardinality(PathsNaming(b, ul[1], ul[2])) > 1 }

LastSeen(b, u, l) ==
    CHOOSE p \in PathsNaming(b, u, l) :
        \A q \in PathsNaming(b, u, l) : PathRank(q) <= PathRank(p)

\* C15: a report that names the same image twice for one device, every
\* reference of which resolves, is applied (short of a store fault), and the
\* device then has a single row for that image, carrying the status, the
\* download progress and the release of the entry seen last.
TieBreakOnDuplicates ==
    \A r \in Reqs : \A ul \in Duplicated(body[r]) :
        (Done(r) /\ ~Unresolvable(body[r]) /\ res[r].error # "StoreFault") =>
            LET p == LastSeen(body[r], ul[1], ul[2])
                rows == {i \in imageInstall :
                           /\ i.device = DeviceOfUuid(ul[1]).id
                           /\ i.installs__image = ImageIdAt(ul[2])}
            IN  /\ Accepted(r)
                /\ Cardinality(rows) = 1
                /\ \A i \in rows :
                     /\ i.status = ServiceAt(body[r], p).status
                     /\ i.is_provided_by__release = ReleaseIdAt(p[2], p[3])
                     /\ i.download_progress =
                          IF "download_progress" \in DOMAIN ServiceAt(body[r], p)
                          THEN {ServiceAt(body[r], p).download_progress} ELSE {}

\* ------------------------------------------------------------------------
\* C16
\* ------------------------------------------------------------------------

\* The store with the operations of the batch of request r applied to the
\* store the request found, every delete after every other operation.
UpsertsThenDeletes(r) ==
    LET ops == WriteLoop(body[r], xref[r], uuids(body[r])).ops
    IN  ApplyOps([ device |-> hist[r].before.device,
                   installs |-> hist[r].before.imageInstall,
                   idSeq |-> idSeq ],
                 SelectSeq(ops, LAMBDA o : o.op # "delete")
                     \o SelectSeq(ops, LAMBDA o : o.op = "delete"),
                 {i.id : i \in xref[r].images})

\* C16: in whatever order the operations of a write transaction ran, the
\* committed store is the one that applying all upserts, then all deletes,
\* gives; and every row the batch inserted or updated is in it.
OrderIndependence ==
    \A r \in Reqs :
        tx[r].write = "committed" =>
            /\ device = UpsertsThenDeletes(r).device
            /\ SameRows(imageInstall, UpsertsThenDeletes(r).installs)
            /\ \A e \in tx[r].log :
                 e.op \in {"insert", "update"} =>
                    \E i \in imageInstall :
                        i.device = e.device /\ i.installs__image \in e.images

\* A committed batch of two devices inserted a row and deleted a row of the
\* same device.
OrderIndependenceWitness ==
    \E r \in Reqs :
        /\ tx[r].write = "committed"
        /\ Cardinality({e.device : e \in tx[r].log}) > 1
        /\ \E e \in tx[r].log : \E f \in tx[r].log :
              /\ e.op = "insert" /\ f.op = "delete" /\ f.changed
              /\ e.device = f.device

\* ------------------------------------------------------------------------
\* C17
\* ------------------------------------------------------------------------

\* The device columns a report may write.
WritableColumns == validPatchFields \cup {"device_name", "is_running__release"}

\* The ids of the devices the batch of request r names.
BatchDeviceIds(r) == {DeviceOfUuid(u).id : u \in DOMAIN body[r].val \cap KnownUuids}

\* C17: at every point of a request, a device row differs from the row the
\* request found only for a device the batch names and only in the
\* allow-listed fields, device_name and is_running__release; and every device
\* patch the request ran carries only such columns.
DeviceFrame ==
    \A r \in Reqs :
        Started(r) =>
            /\ \A d \in DeviceIds :
                 /\ DOMAIN hist[r].before.device[d] \subseteq DOMAIN device[d]
                 /\ \A k \in DOMAIN device[d] :
                      (k \notin DOMAIN hist[r].before.device[d]
                         \/ device[d][k] # hist[r].before.device[d][k])
                      => (k \in WritableColumns /\ d \in BatchDeviceIds(r))
            /\ \A e \in tx[r].log :
                 e.op = "patch" =>
                    (e.fields \subseteq WritableColumns /\ e.device \in BatchDeviceIds(r))

\* An accepted report that carried parent_device changed the row of its
\* device.
DeviceFrameWitness ==
    \E r \in Reqs :
        /\ Accepted(r)
        /\ \E u \in DOMAIN body[r].val : "parent_device" \in DOMAIN body[r].val[u]
        /\ \E e \in tx[r].log : e.op = "patch" /\ e.changed
        /\ device # hist[r].before.device

\* ------------------------------------------------------------------------
\* C20
\* ------------------------------------------------------------------------

\* C20: once the read phase has accepted a batch, what it resolved holds a
\* device for every uuid of the batch, a release for every (application,
\* commit) pair and an image for every location the batch references, and the
\* loop of the write phase raises neither UnauthorizedError nor
\* InternalRequestError.
LookupsSucceed ==
    \A r \in Reqs :
        ReadAccepted(r) =>
            /\ \A u \in DOMAIN body[r].val :
                 \E d \in xref[r].devices : d.uuid = u
            /\ \A ac \in ReferencedCommits(body[r]) :
                 /\ ac[1] \in DOMAIN xref[r].appReleases
                 /\ \E q \in xref[r].appReleases[ac[1]] : q.commit = ac[2]
            /\ \A l \in ReferencedLocations(body[r]) :
                 \E i \in xref[r].images : i.is_stored_at__image_location = l
            /\ WriteLoop(body[r], xref[r], uuids(body[r])).thrown
                 \notin {"UnauthorizedError", "InternalRequestError"}
            /\ res[r].error \notin {"UnauthorizedError", "InternalRequestError"}

\* The write phase of a batch of two devices, with images of two releases,
\* has looked up everything and issued its operations.
LookupsSucceedWitness ==
    \E r \in Reqs :
        /\ ReadAccepted(r)
        /\ pc[r] = "ops"
        /\ Cardinality(xref[r].devices) > 1
        /\ Cardinality(xref[r].images) > 1
        /\ Cardinality(ReferencedCommits(body[r])) > 1
        /\ \E o \in tx[r].pending : o.op = "get"

\* ------------------------------------------------------------------------
\* Vocabulary of the cache properties
\* ------------------------------------------------------------------------

\* The step in which cache.wrap answers the calls that wait for the key of
\* instance p: from the cache (a hit), or with the value fn just returned.
HitStep(p) == wrap[p].phase = "lookup" /\ wrap'[p].phase = "none"
StoreStep(p) == wrap[p].phase = "store" /\ wrap'[p].phase = "none"
Answered(p) == HitStep(p) \/ StoreStep(p)

\* The step in which instance p invokes fn.
Invoked(p) ==
    \/ wrap[p].phase = "work" /\ wrap'[p].phase = "store"
    \/ refresh[p].phase = "work" /\ refresh'[p].phase = "store"

\* The entry a hit of instance p is answered from.
HitEntry(p) ==
    IF getKey(p) \in DOMAIN caches[p] THEN caches[p][getKey(p)]
    ELSE caches[Redis][getKey(p)]

\* The calls of an instance that wait are those of its one cache.wrap.
OneWrapPerKey ==
    \A p \in Procs :
        /\ wrap[p].waiters = {c \in Callers : call[p][c].st = "waiting"}
        /\ wrap[p].phase = "none" <=> wrap[p].waiters = {}

\* ------------------------------------------------------------------------
\* C13
\* ------------------------------------------------------------------------

\* C13 as stated: (a) a call made after a call has completed, with no
\* expiry and no delete since, is answered from the cache with the same
\* value, and fn is not invoked while that holds; (b) the calls that overlap
\* on a missing key wait for one cache.wrap, which invokes fn once and
\* answers them all with its result; (c) the next call after a delete is
\* answered by an invocation of fn made after the call began.
ReadThroughAsStated ==
    /\ []OneWrapPerKey
    /\ [][\A p \in Procs :
            /\ \A c \in wrap[p].waiters :
                 (Answered(p) /\ call[p][c].stable0) =>
                     (HitStep(p) /\ call'[p][c].value = call[p][c].expect)
            /\ since[p].settled0 => ~Invoked(p)
            /\ StoreStep(p) =>
                 \A c \in wrap[p].waiters :
                     /\ call'[p][c].st = "done"
                     /\ call'[p][c].value = FromCache(wrap[p].data, opts.undefinedAs)
            /\ \A c \in wrap[p].waiters :
                 (Answered(p) /\ call[p][c].next) =>
                     (StoreStep(p) /\ ~call[p][c].late)
       ]_vars

\* C13, amended: (a) holds while, with preFetch, the entry is also above
\* the refresh threshold and no background refresh is under way; (c) holds
\* when no computation, of this or of another instance, has stored a value
\* for the key since the delete.
ReadThrough ==
    /\ []OneWrapPerKey
    /\ [][\A p \in Procs :
            /\ \A c \in wrap[p].waiters :
                 (Answered(p) /\ call[p][c].stable) =>
                     (HitStep(p) /\ call'[p][c].value = call[p][c].expect)
            /\ since[p].settled => ~Invoked(p)
            /\ StoreStep(p) =>
                 \A c \in wrap[p].waiters :
                     /\ call'[p][c].st = "done"
                     /\ call'[p][c].value = FromCache(wrap[p].data, opts.undefinedAs)
            /\ \A c \in wrap[p].waiters :
                 (Answered(p) /\ call[p][c].next /\ call[p][c].quiet) =>
                     (StoreStep(p) /\ ~call[p][c].late)
       ]_vars

\* In instance 1 a call was answered by an invocation of fn and a later one
\* from the cache, with the same value; the call of instance 2 was answered
\* from the cache as well.
ReadThroughWitness ==
    /\ call[1][1].via = "work"
    /\ call[1][2].via = "hit"
    /\ call[1][2].value = call[1][1].value
    /\ call[2][1].via = "hit"
    /\ since[1].settled

\* ------------------------------------------------------------------------
\* C14
\* ------------------------------------------------------------------------

KeysAreNamespaced ==
    /\ [](\A p \in Procs :
            /\ \A k \in CacheKeyChoices : memo[p].created[k] <= 1
            /\ memo[p].created[""] = 0
            /\ usedCacheKeys[p] = {k \in CacheKeyChoices : memo[p].created[k] = 1})
    /\ [][\A p \in Procs : HitStep(p) => HitEntry(p).version = version[p]]_vars

\* Two instances of different versions each stored its value under its own
\* key.
KeysAreNamespacedWitness ==
    /\ version[1] # version[2]
    /\ call[1][1].st = "done" /\ call[2][1].st = "done"
    /\ call[1][2].via = "hit"
    /\ Cardinality(DOMAIN caches[Redis]) = 2

\* ------------------------------------------------------------------------
\* C19
\* ------------------------------------------------------------------------

\* The names of the middlewares that ran for request r before its handler.
RanBefore(r) == {http[r].ran[i] : i \in 1..(Len(http[r].ran) - 1)}

\* C19: when the handler of a state-report (PATCH) route is entered, the
\* deleted-device guard and the credential middleware have both run, the
\* device is not deleted and the credential is valid.
StateReportIsGuarded ==
    \A r \in Reqs :
        (http[r].stage = "handled" /\ http[r].route.method = "PATCH") =>
            /\ "gracefullyDenyDeletedDevices" \in RanBefore(r)
            /\ "apiKeyMiddleware" \in RanBefore(r)
            /\ ~http[r].deleted
            /\ http[r].credential

\* ------------------------------------------------------------------------
\* C21
\* ------------------------------------------------------------------------

\* The devices of the batch whose entry has no apps (apps != null is false,
\* lines 245 and 267), and those whose apps object names no service.
OmitsApps(b) == {u \in DOMAIN b.val \cap KnownUuids : ~HasApps(b.val[u])}
ClaimsNoImages(b) ==
    {u \in DOMAIN b.val \cap KnownUuids :
        HasApps(b.val[u]) /\ {p \in ServicePaths(b) : p[1] = u} = {}}

\* The image_install rows of a device.
InstallsOf(installs, d) == {i \in installs : i.device = d}

\* The operations of request r on image_install for device d, issued or run.
InstallOps(r, d) ==
    {o \in tx[r].pending : o.device = d /\ o.op \in {"get", "upsert", "delete"}}
    \cup {e \in tx[r].log : e.device = d /\ e.table = "image_install"}

\* The device patches of request r for device d that set is_running__release.
ReleasePatches(r, d) ==
    {o \in tx[r].pending : o.device = d /\ o.op = "patch"
                             /\ "is_running__release" \in DOMAIN o.body}
    \cup {e \in tx[r].log : e.device = d /\ e.op = "patch"
                              /\ "is_running__release" \in e.fields}

\* C21: for a device whose entry omits apps, the request issues no read,
\* upsert or delete on image_install and no patch of is_running__release,
\* and the device's image_install rows and its is_running__release stay as
\* the request found them; for a device whose apps object claims no image,
\* the loop of the write transaction issues deleteOldImageInstalls with an
\* empty set of claimed images, and no read or upsert.
AppsOmittedOrEmpty ==
    /\ [](\A r \in Reqs : Started(r) =>
            \A u \in OmitsApps(body[r]) :
                LET d == DeviceOfUuid(u).id
                IN  /\ InstallOps(r, d) = {}
                    /\ ReleasePatches(r, d) = {}
                    /\ InstallsOf(imageInstall, d) = InstallsOf(hist[r].before.imageInstall, d)
                    /\ InstallsOf(tx[r].installs, d) \subseteq InstallsOf(imageInstall, d)
                    /\ device[d].is_running__release
                          = hist[r].before.device[d].is_running__release)
    /\ [][\A r \in Reqs :
            (pc[r] = "write" /\ pc'[r] # "write") =>
                \A u \in ClaimsNoImages(body[r]) :
                    LET d == DeviceOfUuid(u).id
                    IN  /\ \E o \in tx'[r].pending :
                             o.device = d /\ o.op = "delete" /\ o.imageIds = {}
                        /\ \A o \in tx'[r].pending :
                             o.device = d => o.op \in {"patch", "delete"}
       ]_vars

====
